---- MODULE Spec2Model ----
(***************************************************************************)
(* A model of the resume matcher's two edge functions (match-resumes and   *)
(* parse-document, supabase/functions/match-resumes/index.ts), of the      *)
(* jobs / resumes / matches tables they run against (the schema migration) *)
(* and of the UI handlers that insert and delete rows (CreateJob.tsx,      *)
(* History).                                                               *)
(*                                                                         *)
(* Numbers: the code computes in IEEE doubles; the model computes in       *)
(* fixed point with Scale units per 1.0, so a similarity of 0.6 is 60.     *)
(* Text: a string is the sequence of its character codes; SQL NULL is      *)
(* the marker Null.                                                        *)
(* Embedding: the store holds a vector; the model holds what determines    *)
(* it, the text it was computed from and the path (primary model or        *)
(* fallback) that computed it; Vec gives the vector.                       *)
(***************************************************************************)
EXTENDS Integers, Sequences, FiniteSets, TLC

\* ------------------------------------------------------------------ bounds

MaxJobs == 2
MaxResumes == 2
\* the resumes Spec uploads
MaxUploads == 1
\* the longest text and the longest vector passed to a pure function in SpecPure
MaxTextLen == 3
MaxVecLen == 2

JobIds == 1..MaxJobs
ResumeIds == 1..MaxResumes
\* one invocation of match-resumes at a time in Spec, two in SpecConc
RunIds == {"A", "B"}

\* ------------------------------------------------------------------ values

Scale == 10 * 10
Null == <<0 - 1>>
EmbeddingDim == 384
DefaultThreshold == 60

\* "Go dev", "Chef"
TextGoDev == <<71, 111, 32, 100, 101, 118>>
TextChef == <<67, 104, 101, 102>>

\* file contents offered to parse-document: "Go dev\n", " Chef", "\n"
RawContents == {<<71, 111, 32, 100, 101, 118, 10>>, <<32, 67, 104, 101, 102>>, <<10>>}
FileTypes == {"text/plain", "image/png"}

NoThreshold == 0 - 1
\* threshold of a request body: absent, or a number
RequestThresholds == {NoThreshold, 90}

NoEmb == [path |-> "none", text |-> <<>>]
NoScore == 10 * Scale
\* history: the pair's row went with the delete of its job or resume
Cascaded == NoScore + 1

\* JavaScript truthiness of a nullable string: null and '' are falsy
Truthy(text) == text # Null /\ text # <<>>

\* ------------------------------------------------------------------ cleanText

IsSpace(c) == c \in {9, 10, 11, 12, 13, 32, 160}
IsPrintable(c) == c >= 32 /\ c <= 126

\* .replace(/[^\x20-\x7E\s]/g, ' ')
ReplaceNonPrintable(s) == [k \in 1..Len(s) |-> IF IsPrintable(s[k]) \/ IsSpace(s[k]) THEN s[k] ELSE 32]

\* the chain without .replace(/\s+/g, ' ')
CollapseWhitespaceAbsent(s) == s

RECURSIVE CollapseWhitespace(_)
\* .replace(/\s+/g, ' ')
CollapseWhitespace(s) ==
    IF s = <<>> THEN <<>>
    ELSE IF IsSpace(Head(s))
         THEN IF Len(s) > 1 /\ IsSpace(s[2])
              THEN CollapseWhitespace(Tail(s))
              ELSE <<32>> \o CollapseWhitespace(Tail(s))
         ELSE <<Head(s)>> \o CollapseWhitespace(Tail(s))

\* .replace(/\n+/g, ' ')
ReplaceNewlines(s) == [k \in 1..Len(s) |-> IF s[k] = 10 THEN 32 ELSE s[k]]

RECURSIVE TrimStart(_)
TrimStart(s) == IF s # <<>> /\ IsSpace(Head(s)) THEN TrimStart(Tail(s)) ELSE s

RECURSIVE TrimEnd(_)
TrimEnd(s) == IF s # <<>> /\ IsSpace(s[Len(s)]) THEN TrimEnd(SubSeq(s, 1, Len(s) - 1)) ELSE s

Trim(s) == TrimEnd(TrimStart(s))

\* the chain of replacements without its .trim()
cleanTextUntrimmed(text) == ReplaceNewlines(CollapseWhitespace(ReplaceNonPrintable(text)))

cleanText(text) == Trim(ReplaceNewlines(CollapseWhitespace(ReplaceNonPrintable(text))))

\* ------------------------------------------------------------------ embeddings

RECURSIVE Isqrt(_)
\* floor of the square root
Isqrt(n) == IF n < 2 THEN n
            ELSE LET s == 2 * Isqrt(n \div 4)
                 IN IF (s + 1) * (s + 1) <= n THEN s + 1 ELSE s

RECURSIVE SumRange(_, _, _)
\* s[lo] + ... + s[hi], by halves
SumRange(s, lo, hi) ==
    IF lo > hi THEN 0
    ELSE IF lo = hi THEN s[lo]
    ELSE LET mid == (lo + hi) \div 2
         IN SumRange(s, lo, mid) + SumRange(s, mid + 1, hi)

SumSeq(s) == SumRange(s, 1, Len(s))

\* no .toLowerCase(): the text as it is
ToLowerCaseAbsent(s) == s

\* String.prototype.toLowerCase on ASCII
ToLowerCase(s) == [k \in 1..Len(s) |-> IF s[k] >= 65 /\ s[k] <= 90 THEN s[k] + 32 ELSE s[k]]

RECURSIVE SplitFrom(_, _)
\* the pieces of s between whitespace runs, cur being the piece under construction
SplitFrom(s, cur) ==
    IF s = <<>> THEN <<cur>>
    ELSE IF IsSpace(Head(s))
         THEN IF Len(s) > 1 /\ IsSpace(s[2])
              THEN SplitFrom(Tail(s), cur)
              ELSE <<cur>> \o SplitFrom(Tail(s), <<>>)
         ELSE SplitFrom(Tail(s), Append(cur, Head(s)))

\* text.split(/\s+/)
SplitWhitespace(s) == SplitFrom(s, <<>>)

\* what the nested loops add to slot k (0-based), in units of 1/1000
SlotSum(words, k) ==
    SumSeq([n \in 1..(IF Len(words) < EmbeddingDim THEN Len(words) ELSE EmbeddingDim) |->
        LET i == n - 1
            word == words[n]
        IN SumSeq([m \in 1..Len(word) |->
                     IF (i + (m - 1)) % EmbeddingDim = k THEN word[m] ELSE 0])])

\* new Array(383): a vector one component short
generateFallbackEmbeddingShort(text) == [k \in 1..(EmbeddingDim - 1) |-> 0]

generateFallbackEmbedding(text) ==
    LET words == SplitWhitespace(ToLowerCase(text))
        embedding == [k \in 1..EmbeddingDim |-> SlotSum(words, k - 1)]
        magnitude == Isqrt(SumSeq([k \in 1..EmbeddingDim |-> embedding[k] * embedding[k]]))
    IN [k \in 1..EmbeddingDim |->
          IF magnitude > 0 THEN (embedding[k] * Scale) \div magnitude ELSE 0]

\* the gte-small model (mean pooled, normalized): an opaque deterministic
\* function of the text, whose unit vectors have components of both signs
ModelRun(text) ==
    [k \in 1..EmbeddingDim |->
        IF k = 1 THEN (IF SumSeq(text) % 2 = 0 THEN 80 ELSE 0 - 80)
        ELSE IF k = 2 THEN 60 ELSE 0]

EmbedPaths == {"primary", "fallback"}

\* a catch block that logs and returns nothing
generateEmbeddingNoFallback(text, path) ==
    IF path = "primary" THEN [path |-> path, text |-> text] ELSE NoEmb

\* generateEmbedding: the model's vector, or the fallback's when the model raises
generateEmbedding(text, path) == [path |-> path, text |-> text]

Vec(e) == IF e.path = "primary" THEN ModelRun(e.text) ELSE generateFallbackEmbedding(e.text)

\* no test of the lengths: the loop runs over the components both vectors have
calculateCosineSimilarityCommon(vec1, vec2) ==
    LET n == IF Len(vec1) < Len(vec2) THEN Len(vec1) ELSE Len(vec2)
        dotProduct == SumSeq([k \in 1..n |-> vec1[k] * vec2[k]])
        magnitude1 == SumSeq([k \in 1..n |-> vec1[k] * vec1[k]])
        magnitude2 == SumSeq([k \in 1..n |-> vec2[k] * vec2[k]])
    IN IF magnitude1 = 0 \/ magnitude2 = 0 THEN 0
       ELSE (dotProduct * Scale) \div Isqrt(magnitude1 * magnitude2)

\* a zero magnitude answered with 1, not 0
calculateCosineSimilarityZeroAsOne(vec1, vec2) ==
    IF Len(vec1) # Len(vec2) THEN 0
    ELSE LET dotProduct == SumSeq([k \in 1..Len(vec1) |-> vec1[k] * vec2[k]])
             magnitude1 == SumSeq([k \in 1..Len(vec1) |-> vec1[k] * vec1[k]])
             magnitude2 == SumSeq([k \in 1..Len(vec2) |-> vec2[k] * vec2[k]])
         IN IF magnitude1 = 0 \/ magnitude2 = 0 THEN Scale
            ELSE (dotProduct * Scale) \div Isqrt(magnitude1 * magnitude2)

calculateCosineSimilarity(vec1, vec2) ==
    IF Len(vec1) # Len(vec2) THEN 0
    ELSE LET dotProduct == SumSeq([k \in 1..Len(vec1) |-> vec1[k] * vec2[k]])
             magnitude1 == SumSeq([k \in 1..Len(vec1) |-> vec1[k] * vec1[k]])
             magnitude2 == SumSeq([k \in 1..Len(vec2) |-> vec2[k] * vec2[k]])
         IN IF magnitude1 = 0 \/ magnitude2 = 0 THEN 0
            ELSE (dotProduct * Scale) \div Isqrt(magnitude1 * magnitude2)

\* the embeddings a store of these texts can hold
StoredTexts == {cleanText(c) : c \in RawContents} \ {<<>>}
Embeddings == [path : EmbedPaths, text : StoredTexts]
RECURSIVE Tabulate(_)
\* calculateCosineSimilarity on the pairs of P, computed once
Tabulate(P) ==
    IF P = {} THEN <<>>
    ELSE LET p == CHOOSE q \in P : TRUE
         IN (p :> calculateCosineSimilarity(Vec(p[1]), Vec(p[2]))) @@ Tabulate(P \ {p})
SimilarityTable == Tabulate(Embeddings \X Embeddings)
\* the similarity of two stored embeddings
Similarity(e1, e2) == SimilarityTable[<<e1, e2>>]

\* ------------------------------------------------------------------ state

VARIABLES
    jobs,        \* jobs table: id -> row
    resumes,     \* resumes table: id -> row
    matches,     \* matches table: a set of rows
    runs,        \* the invocations of match-resumes: their locals and position
    parse,       \* the invocation of parse-document: its request and response
    lastUpsert,  \* history: the score of the last successful upsert per pair
    computed,    \* history: the documents generateEmbedding has run for
    call         \* a call of one of the pure functions: its arguments and its result

vars == <<jobs, resumes, matches, runs, parse, lastUpsert, computed, call>>
store == <<jobs, resumes, matches>>

\* a row id is used once: free (never inserted), live, gone (deleted)
FreeJob == [row |-> "free", description_text |-> Null, embedding |-> NoEmb, status |-> "none"]
FreeResume == [row |-> "free", job_id |-> 0, resume_text |-> Null, embedding |-> NoEmb,
               status |-> "none"]

NoResp == [status |-> 0, success |-> FALSE, error |-> "", total_resumes |-> 0,
           matched_resumes |-> 0, threshold |-> 0, matches |-> <<>>]

IdleRun == [pc |-> "idle", jobId |-> 0, threshold |-> 0, job |-> FreeJob,
            jobEmbedding |-> NoEmb, resumes |-> <<>>, i |-> 0, resumeEmbedding |-> NoEmb,
            matches |-> <<>>, resp |-> NoResp,
            \* history of the invocation
            asked |-> 0, lookup |-> "none", failed |-> {}, out |-> [x \in ResumeIds |-> "none"],
            scored |-> [x \in ResumeIds |-> NoScore], replaced |-> {},
            gen |-> {}, cached |-> {}, raised |-> {}]

IdleParse == [pc |-> "idle", documentType |-> "", documentId |-> 0, fileType |-> "",
              success |-> FALSE, text |-> Null, length |-> 0, error |-> ""]

\* no call of a pure function under way
NoCall == [fn |-> "none", args |-> <<>>, out |-> <<>>, done |-> FALSE]

JobDoc(j) == <<"job", j>>
ResumeDoc(x) == <<"resume", x>>
Docs == {JobDoc(j) : j \in JobIds} \cup {ResumeDoc(x) : x \in ResumeIds}

Init ==
    /\ jobs = [j \in JobIds |-> FreeJob]
    /\ resumes = [x \in ResumeIds |-> FreeResume]
    /\ matches = {}
    /\ runs = [r \in RunIds |-> IdleRun]
    /\ parse = IdleParse
    /\ lastUpsert = [p \in JobIds \X ResumeIds |-> NoScore]
    /\ computed = {}
    /\ call = NoCall

\* a response in flight is delivered before anything else happens: its
\* delivery changes nothing another handler reads
Quiet == parse.pc = "idle"

\* no match run is in flight
NoRun == \A r \in RunIds : runs[r].pc = "idle"

\* ------------------------------------------------------------------ the UI's inserts and deletes

\* CreateJob.handleSubmit: the inserted row is 'processing', without text
CreateJob(j) ==
    /\ Quiet /\ NoRun
    /\ jobs[j].row = "free"
    /\ jobs' = [jobs EXCEPT ![j] = [row |-> "live", description_text |-> Null,
                                     embedding |-> NoEmb, status |-> "processing"]]
    /\ UNCHANGED <<resumes, matches, runs, parse, lastUpsert, computed, call>>

\* JobDetails.handleUploadResumes: one inserted row per file, 'processing', without text
UploadResume(x, j) ==
    /\ Quiet /\ NoRun
    /\ resumes[x].row = "free"
    /\ \A y \in ResumeIds : y < x => resumes[y].row # "free"
    /\ Cardinality({y \in ResumeIds : resumes[y].row # "free"}) < MaxUploads
    /\ jobs[j].row = "live"
    /\ resumes' = [resumes EXCEPT ![x] = [row |-> "live", job_id |-> j, resume_text |-> Null,
                                           embedding |-> NoEmb, status |-> "processing"]]
    /\ UNCHANGED <<jobs, matches, runs, parse, lastUpsert, computed, call>>

\* a matches table whose resume_id has no ON DELETE CASCADE: no row goes
MatchesOfResumesKept(X) == {}

\* the rows a delete of resumes X takes with it (ON DELETE CASCADE)
MatchesOfResumes(X) == {m \in matches : m.resume_id \in X}
GoneResume == [FreeResume EXCEPT !.row = "gone"]
GoneJob == [FreeJob EXCEPT !.row = "gone"]

\* JobDetails.handleDeleteResumes: delete from resumes where id in idsToDelete
DeleteResumes(idsToDelete) ==
    /\ Quiet /\ NoRun
    /\ idsToDelete # {}
    /\ \A x \in idsToDelete : resumes[x].row = "live"
    /\ resumes' = [x \in ResumeIds |->
                     IF x \in idsToDelete THEN GoneResume ELSE resumes[x]]
    /\ matches' = matches \ MatchesOfResumes(idsToDelete)
    /\ lastUpsert' = [p \in JobIds \X ResumeIds |->
                        IF p[2] \in idsToDelete
                        THEN (IF \E m \in matches : <<m.job_id, m.resume_id>> = p
                              THEN Cascaded ELSE lastUpsert[p])
                        ELSE lastUpsert[p]]
    /\ computed' = computed \ {ResumeDoc(x) : x \in idsToDelete}
    /\ UNCHANGED <<jobs, runs, parse, call>>

\* History.handleDeleteJob: delete from jobs where id = j; resumes and matches cascade
DeleteJob(j) ==
    /\ Quiet /\ NoRun
    /\ jobs[j].row = "live"
    /\ jobs' = [jobs EXCEPT ![j] = GoneJob]
    /\ resumes' = [x \in ResumeIds |->
                     IF resumes[x].row = "live" /\ resumes[x].job_id = j
                     THEN GoneResume ELSE resumes[x]]
    /\ matches' = {m \in matches : m.job_id # j /\ resumes'[m.resume_id].row = "live"}
    /\ lastUpsert' = [p \in JobIds \X ResumeIds |->
                        IF p[1] = j \/ resumes'[p[2]].row # "live"
                        THEN (IF \E m \in matches : <<m.job_id, m.resume_id>> = p
                              THEN Cascaded ELSE lastUpsert[p])
                        ELSE lastUpsert[p]]
    /\ computed' = computed \ ({JobDoc(j)} \cup {ResumeDoc(x) : x \in
                                     {y \in ResumeIds : resumes'[y].row # "live"}})
    /\ UNCHANGED <<runs, parse, call>>

\* JobDetails.handleDeleteMatches: delete from matches where id in the selection
DeleteMatches(rows) ==
    /\ Quiet /\ NoRun
    /\ rows # {}
    /\ rows \subseteq matches
    /\ matches' = matches \ rows
    /\ lastUpsert' = [p \in JobIds \X ResumeIds |->
                        IF \E m \in rows : <<m.job_id, m.resume_id>> = p
                        THEN NoScore ELSE lastUpsert[p]]
    /\ UNCHANGED <<jobs, resumes, runs, parse, computed, call>>

\* ------------------------------------------------------------------ parse-document

\* a dispatch whose last branch decodes the buffer as text instead of throwing
SupportedAny(fileType) == TRUE

Supported(fileType) == fileType = "text/plain"

\* the handler, from the request to its response; ok: the store's update succeeds
ParseDocument(documentType, documentId, fileType, content, ok) ==
    /\ Quiet /\ NoRun
    /\ LET cleanedText == cleanText(content)
           req == [IdleParse EXCEPT !.pc = "done", !.documentType = documentType,
                                    !.documentId = documentId, !.fileType = fileType]
       IN IF ~Supported(fileType)
          THEN /\ parse' = [req EXCEPT !.error = "Unsupported file type"]
               /\ UNCHANGED <<jobs, resumes>>
          ELSE IF ~ok
          THEN /\ parse' = [req EXCEPT !.error = "store error"]
               /\ UNCHANGED <<jobs, resumes>>
          ELSE /\ parse' = [req EXCEPT !.success = TRUE, !.text = cleanedText,
                                        !.length = Len(cleanedText)]
               /\ IF documentType = "job"
                  THEN /\ jobs' = [j \in JobIds |->
                                     IF j = documentId /\ jobs[j].row = "live"
                                     THEN [jobs[j] EXCEPT !.description_text = cleanedText,
                                                          !.status = "completed"]
                                     ELSE jobs[j]]
                       /\ UNCHANGED resumes
                  ELSE /\ resumes' = [x \in ResumeIds |->
                                        IF x = documentId /\ resumes[x].row = "live"
                                        THEN [resumes[x] EXCEPT !.resume_text = cleanedText,
                                                                !.status = "completed"]
                                        ELSE resumes[x]]
                       /\ UNCHANGED jobs
    /\ UNCHANGED <<matches, runs, lastUpsert, computed, call>>

\* await req.json() raises on a malformed body: the catch block answers
ParseBadRequest ==
    /\ Quiet /\ NoRun
    /\ parse' = [IdleParse EXCEPT !.pc = "done", !.error = "malformed body"]
    /\ UNCHANGED <<jobs, resumes, matches, runs, lastUpsert, computed, call>>

\* await fetch(fileUrl) rejects: the catch block answers
ParseFetchFailed(documentType, documentId, fileType) ==
    /\ Quiet /\ NoRun
    /\ parse' = [IdleParse EXCEPT !.pc = "done", !.documentType = documentType,
                                  !.documentId = documentId, !.fileType = fileType,
                                  !.error = "fetch failed"]
    /\ UNCHANGED <<jobs, resumes, matches, runs, lastUpsert, computed, call>>

\* the response reaches the caller
ParseReturn ==
    /\ parse.pc = "done"
    /\ parse' = IdleParse
    /\ UNCHANGED <<jobs, resumes, matches, runs, lastUpsert, computed, call>>

\* ------------------------------------------------------------------ match-resumes

\* no catch block: the exception leaves the handler and no response is built
Escapes(message) == NoResp

\* the catch block's response
Failure(message) == [NoResp EXCEPT !.status = 500, !.error = message]

\* const { threshold = 0.6 } = await req.json()
ThresholdOf(threshold) == IF threshold = NoThreshold THEN DefaultThreshold ELSE threshold

\* a handler that throws on the job lookup alone
ThrowsOnLookupOnly(op, ok) == ~ok /\ op = "jobLookup"

\* a handler that throws on a failed upsert too
ThrowsOnUpsert(op, ok) == ~ok /\ op \in {"jobLookup", "loadResumes", "upsert"}

\* which failed store operations the handler throws on: it reads and throws the
\* error of the job lookup and of the resumes query, and of no other operation
Throws(op, ok) == ~ok /\ op \in {"jobLookup", "loadResumes"}

\* if (jobError), the test of the row forgotten
JobMissingOnError(ok, row) == ~ok

\* if (jobError || !job)
JobMissing(ok, row) == Throws("jobLookup", ok) \/ row.row # "live"

\* if (job.description_text), the cached vector ignored
NeedsJobEmbeddingAlways(jobEmbedding, job) == Truthy(job.description_text)

\* if (!jobEmbedding && job.description_text)
NeedsJobEmbedding(jobEmbedding, job) == jobEmbedding = NoEmb /\ Truthy(job.description_text)

\* no test at the head of the loop: every loaded resume goes on
SkipGuardAbsent(resume) == FALSE

\* if (!resume.resume_text && resume.status !== 'completed')
SkipGuard(resume) == ~Truthy(resume.resume_text) /\ resume.status # "completed"

\* if (!resumeEmbedding), the text not tested
NeedsResumeEmbeddingNoText(resumeEmbedding, resume) == resumeEmbedding = NoEmb

\* if (!resumeEmbedding && resume.resume_text)
NeedsResumeEmbedding(resumeEmbedding, resume) ==
    resumeEmbedding = NoEmb /\ Truthy(resume.resume_text)

\* const isMatch = similarity > threshold
IsMatchAbove(similarity, threshold) == similarity > threshold

\* const isMatch = similarity >= threshold
IsMatch(similarity, threshold) == similarity >= threshold

\* .insert(row), with no conflict target and no unique key
UpsertAsInsert(table, row) == table \cup {row}

\* an upsert that leaves the table with the one row
UpsertReplacesTable(table, row) == {row}

\* an upsert whose conflicting row keeps its is_match
UpsertKeepsFlag(table, row) ==
    LET old == {m \in table : m.job_id = row.job_id /\ m.resume_id = row.resume_id}
    IN (table \ old)
       \cup (IF old = {} THEN {row} ELSE {[row EXCEPT !.is_match = m.is_match] : m \in old})

\* .upsert(row, { onConflict: 'job_id,resume_id' }) under UNIQUE(job_id, resume_id)
Upsert(table, row) ==
    {m \in table : ~(m.job_id = row.job_id /\ m.resume_id = row.resume_id)} \cup {row}

\* the foreign keys of a matches row
ForeignKeysHold(jobId, resumeId) == jobs[jobId].row = "live" /\ resumes[resumeId].row = "live"

Counted(d) == computed \cup {d}

RECURSIVE Ascending(_)
\* the ids of S in ascending order
Ascending(S) == IF S = {} THEN <<>>
                ELSE LET x == CHOOSE y \in S : \A z \in S : y <= z
                     IN <<x>> \o Ascending(S \ {x})

\* select * from resumes, without .eq('job_id', jobId)
SelectResumesAll(jobId) ==
    LET ids == Ascending({x \in ResumeIds : resumes[x].row = "live"})
    IN [k \in 1..Len(ids) |-> [id |-> ids[k], resume_text |-> resumes[ids[k]].resume_text,
                                status |-> resumes[ids[k]].status,
                                embedding |-> resumes[ids[k]].embedding]]

\* select * from resumes where job_id = jobId
SelectResumes(jobId) ==
    LET ids == Ascending({x \in ResumeIds : resumes[x].row = "live" /\ resumes[x].job_id = jobId})
    IN [k \in 1..Len(ids) |-> [id |-> ids[k], resume_text |-> resumes[ids[k]].resume_text,
                                status |-> resumes[ids[k]].status,
                                embedding |-> resumes[ids[k]].embedding]]

RECURSIVE InsertDescendingUnstable(_, _)
\* m placed before the first element that does not compare above it
InsertDescendingUnstable(sorted, m) ==
    IF sorted = <<>> THEN <<m>>
    ELSE IF Head(sorted).similarity_score > m.similarity_score
         THEN <<Head(sorted)>> \o InsertDescendingUnstable(Tail(sorted), m)
         ELSE <<m>> \o sorted

RECURSIVE InsertDescending(_, _)
\* m placed after every element that does not compare below it
InsertDescending(sorted, m) ==
    IF sorted = <<>> THEN <<m>>
    ELSE IF Head(sorted).similarity_score >= m.similarity_score
         THEN <<Head(sorted)>> \o InsertDescending(Tail(sorted), m)
         ELSE <<m>> \o sorted

RECURSIVE SortMatches(_)
\* matches.sort((a, b) => b.similarity_score - a.similarity_score), a stable sort
SortMatches(list) ==
    IF list = <<>> THEN <<>>
    ELSE InsertDescending(SortMatches(SubSeq(list, 1, Len(list) - 1)), list[Len(list)])

\* await req.json() raises on a malformed body
BadRequest(r) ==
    /\ Quiet
    /\ runs[r].pc = "idle"
    /\ runs' = [runs EXCEPT ![r].pc = "done", ![r].resp = Failure("malformed body")]
    /\ UNCHANGED <<jobs, resumes, matches, parse, lastUpsert, computed, call>>

\* the request is read and the job looked up; ok: the store's query succeeds
LoadJob(r, jobId, threshold, ok) ==
    /\ Quiet
    /\ runs[r].pc = "idle"
    /\ LET run == [runs[r] EXCEPT !.jobId = jobId, !.threshold = ThresholdOf(threshold),
                                  !.asked = threshold]
           job == jobs[jobId]
       IN IF JobMissing(ok, job)
          THEN runs' = [runs EXCEPT ![r] = [run EXCEPT !.pc = "done", !.lookup = "missing",
                                                      !.resp = Failure("Job not found")]]
          ELSE runs' = [runs EXCEPT ![r] =
                   [run EXCEPT !.lookup = "found", !.job = job, !.jobEmbedding = job.embedding,
                               !.cached = IF job.embedding # NoEmb THEN {JobDoc(jobId)} ELSE {},
                               !.pc = IF NeedsJobEmbedding(job.embedding, job)
                                      THEN "jobEmbed" ELSE "loadResumes"]]
    /\ UNCHANGED <<jobs, resumes, matches, parse, lastUpsert, computed, call>>

\* generateEmbedding(job.description_text) and the update of jobs.embedding, whose
\* error is not read; path: what generateEmbedding does; ok: the update succeeds
EmbedJob(r, path, ok) ==
    /\ Quiet
    /\ runs[r].pc = "jobEmbed"
    /\ LET run == runs[r]
           d == JobDoc(run.jobId)
       IN /\ computed' = Counted(d)
          /\ IF path = "raise"
             THEN /\ runs' = [runs EXCEPT ![r].pc = "done", ![r].gen = @ \cup {d},
                                          ![r].raised = @ \cup {d},
                                          ![r].resp = Failure("embedding failed")]
                  /\ UNCHANGED jobs
             ELSE IF Throws("jobEmbWrite", ok)
             THEN /\ runs' = [runs EXCEPT ![r].pc = "done", ![r].gen = @ \cup {d},
                                          ![r].failed = @ \cup {"jobEmbWrite"},
                                          ![r].resp = Failure("store error")]
                  /\ UNCHANGED jobs
             ELSE /\ runs' = [runs EXCEPT ![r].pc = "loadResumes", ![r].gen = @ \cup {d},
                                          ![r].jobEmbedding =
                                              generateEmbedding(run.job.description_text, path),
                                          ![r].failed = IF ok THEN @ ELSE @ \cup {"jobEmbWrite"}]
                  /\ jobs' = IF ok /\ jobs[run.jobId].row = "live"
                             THEN [jobs EXCEPT ![run.jobId].embedding =
                                      generateEmbedding(run.job.description_text, path)]
                             ELSE jobs
    /\ UNCHANGED <<resumes, matches, parse, lastUpsert, call>>

\* the resumes of the job are loaded; ok: the store's query succeeds
LoadResumes(r, ok) ==
    /\ Quiet
    /\ runs[r].pc = "loadResumes"
    /\ LET loaded == SelectResumes(runs[r].jobId)
       IN IF Throws("loadResumes", ok)
          THEN runs' = [runs EXCEPT ![r].pc = "done", ![r].failed = @ \cup {"loadResumes"},
                                    ![r].resp = Failure("store error")]
          ELSE runs' = [runs EXCEPT ![r].pc = "loop", ![r].i = 1,
                          ![r].failed = IF ok THEN @ ELSE @ \cup {"loadResumes"},
                          \* resumes || []
                          ![r].resumes = IF ok THEN loaded ELSE <<>>,
                          ![r].cached = IF ok
                                        THEN @ \cup {ResumeDoc(loaded[k].id) : k \in
                                               {n \in 1..Len(loaded) : loaded[n].embedding # NoEmb}}
                                        ELSE @]
    /\ UNCHANGED <<jobs, resumes, matches, parse, lastUpsert, computed, call>>

InLoop(r) == runs[r].pc = "loop" /\ runs[r].i <= Len(runs[r].resumes)
Current(r) == runs[r].resumes[runs[r].i]

\* the resume is not yet parsed: continue
SkipResume(r) ==
    /\ Quiet
    /\ InLoop(r)
    /\ SkipGuard(Current(r))
    /\ runs' = [runs EXCEPT ![r].i = @ + 1, ![r].out[Current(r).id] = "skipped"]
    /\ UNCHANGED <<jobs, resumes, matches, parse, lastUpsert, computed, call>>

\* generateEmbedding(resume.resume_text) and the update of resumes.embedding, whose
\* error is logged; path: what generateEmbedding does; ok: the update succeeds
EmbedResume(r, path, ok) ==
    /\ Quiet
    /\ InLoop(r)
    /\ ~SkipGuard(Current(r))
    /\ NeedsResumeEmbedding(Current(r).embedding, Current(r))
    /\ LET resume == Current(r)
           d == ResumeDoc(resume.id)
       IN /\ computed' = Counted(d)
          /\ IF path = "raise"
             THEN /\ runs' = [runs EXCEPT ![r].pc = "done", ![r].gen = @ \cup {d},
                                          ![r].raised = @ \cup {d},
                                          ![r].resp = Failure("embedding failed")]
                  /\ UNCHANGED resumes
             ELSE IF Throws("resumeEmbWrite", ok)
             THEN /\ runs' = [runs EXCEPT ![r].pc = "done", ![r].gen = @ \cup {d},
                                          ![r].failed = @ \cup {"resumeEmbWrite"},
                                          ![r].resp = Failure("store error")]
                  /\ UNCHANGED resumes
             ELSE /\ runs' = [runs EXCEPT ![r].pc = "score", ![r].gen = @ \cup {d},
                                          ![r].resumeEmbedding =
                                              generateEmbedding(resume.resume_text, path),
                                          ![r].failed = IF ok THEN @ ELSE @ \cup {"resumeEmbWrite"}]
                  /\ resumes' = IF ok /\ resumes[resume.id].row = "live"
                                THEN [resumes EXCEPT ![resume.id].embedding =
                                         generateEmbedding(resume.resume_text, path)]
                                ELSE resumes
    /\ UNCHANGED <<jobs, matches, parse, lastUpsert, call>>

\* let resumeEmbedding = resume.embedding, and nothing to generate
ReadCached(r) ==
    /\ Quiet
    /\ InLoop(r)
    /\ ~SkipGuard(Current(r))
    /\ ~NeedsResumeEmbedding(Current(r).embedding, Current(r))
    /\ runs' = [runs EXCEPT ![r].pc = "score", ![r].resumeEmbedding = Current(r).embedding]
    /\ UNCHANGED <<jobs, resumes, matches, parse, lastUpsert, computed, call>>

\* if (jobEmbedding && resumeEmbedding): the similarity, the upsert, whose error is
\* not read, and the push onto matches; ok: the store accepts the upsert
ScoreResume(r, ok) ==
    /\ Quiet
    /\ runs[r].pc = "score"
    /\ runs[r].jobEmbedding # NoEmb /\ runs[r].resumeEmbedding # NoEmb
    /\ LET run == runs[r]
           resume == Current(r)
           similarity == Similarity(run.jobEmbedding, run.resumeEmbedding)
           isMatch == IsMatch(similarity, run.threshold)
           row == [job_id |-> run.jobId, resume_id |-> resume.id,
                   similarity_score |-> similarity, is_match |-> isMatch,
                   threshold |-> run.threshold]
           written == ok /\ ForeignKeysHold(run.jobId, resume.id)
           pushed == IF isMatch
                     THEN Append(run.matches, [resume_id |-> resume.id,
                                               similarity_score |-> similarity])
                     ELSE run.matches
       IN /\ matches' = IF written THEN Upsert(matches, row) ELSE matches
          /\ lastUpsert' = IF written
                           THEN [lastUpsert EXCEPT ![<<run.jobId, resume.id>>] = similarity]
                           ELSE lastUpsert
          /\ IF Throws("upsert", written)
             THEN runs' = [runs EXCEPT ![r].pc = "done", ![r].failed = @ \cup {"upsert"},
                                       ![r].out[resume.id] = "upsertFailed",
                                       ![r].resp = Failure("store error")]
             ELSE runs' = [runs EXCEPT ![r].pc = "loop", ![r].i = @ + 1,
                             ![r].resumeEmbedding = NoEmb,
                             ![r].matches = pushed,
                             ![r].scored[resume.id] = similarity,
                             ![r].replaced = IF written /\ \E m \in matches :
                                                   /\ m.job_id = run.jobId
                                                   /\ m.resume_id = resume.id
                                                   /\ m.similarity_score # similarity
                                             THEN @ \cup {resume.id} ELSE @,
                             ![r].failed = IF written THEN @ ELSE @ \cup {"upsert"},
                             ![r].out[resume.id] = IF written THEN "written" ELSE "upsertFailed"]
    /\ UNCHANGED <<jobs, resumes, parse, computed, call>>

\* one of the two embeddings is missing: nothing is computed for the resume
Unscored(r) ==
    /\ Quiet
    /\ runs[r].pc = "score"
    /\ ~(runs[r].jobEmbedding # NoEmb /\ runs[r].resumeEmbedding # NoEmb)
    /\ runs' = [runs EXCEPT ![r].pc = "loop", ![r].i = @ + 1, ![r].resumeEmbedding = NoEmb,
                             ![r].out[Current(r).id] = "unscored"]
    /\ UNCHANGED <<jobs, resumes, matches, parse, lastUpsert, computed, call>>

\* the loop is over: the matches are sorted and the summary returned
Respond(r) ==
    /\ Quiet
    /\ runs[r].pc = "loop"
    /\ runs[r].i > Len(runs[r].resumes)
    /\ runs' = [runs EXCEPT ![r].pc = "done",
                   ![r].resp = [status |-> 200, success |-> TRUE, error |-> "",
                                total_resumes |-> Len(runs[r].resumes),
                                matched_resumes |-> Len(runs[r].matches),
                                threshold |-> runs[r].threshold,
                                matches |-> SortMatches(runs[r].matches)]]
    /\ UNCHANGED <<jobs, resumes, matches, parse, lastUpsert, computed, call>>

\* the response reaches the caller
Return(r) ==
    /\ runs[r].pc = "done"
    /\ runs' = [runs EXCEPT ![r] = IdleRun]
    /\ UNCHANGED <<jobs, resumes, matches, parse, lastUpsert, computed, call>>

\* ------------------------------------------------------------------ specifications

\* the file a caller sends for a job description, for a resume
ContentsFor(documentType) ==
    IF documentType = "job" THEN {<<71, 111, 32, 100, 101, 118, 10>>} ELSE RawContents

\* the steps of one invocation of match-resumes, its inputs drawn from the given sets
RunStep(r, thresholds, paths, oks) ==
    \/ \E jobId \in JobIds, threshold \in thresholds, ok \in oks :
          LoadJob(r, jobId, threshold, ok)
    \/ \E path \in paths, ok \in oks : EmbedJob(r, path, ok)
    \/ \E ok \in oks : LoadResumes(r, ok)
    \/ SkipResume(r)
    \/ \E path \in paths, ok \in oks : EmbedResume(r, path, ok)
    \/ ReadCached(r)
    \/ \E ok \in oks : ScoreResume(r, ok)
    \/ Unscored(r)
    \/ Respond(r)

\* Spec: any sequence of inserts, deletes, extractions and match runs, each handler
\* running to its response before the next starts, every store operation able to fail
Next ==
    \/ \E j \in JobIds : CreateJob(j)
    \/ \E x \in ResumeIds, j \in JobIds : UploadResume(x, j)
    \/ \E X \in SUBSET ResumeIds : DeleteResumes(X)
    \/ \E j \in JobIds : DeleteJob(j)
    \/ \E rows \in SUBSET matches : DeleteMatches(rows)
    \/ \E documentType \in {"job", "resume"}, documentId \in JobIds \cup ResumeIds,
          fileType \in FileTypes, ok \in BOOLEAN :
          \E content \in ContentsFor(documentType) :
              ParseDocument(documentType, documentId, fileType, content, ok)
    \/ ParseBadRequest
    \/ \E documentType \in {"job", "resume"}, documentId \in JobIds \cup ResumeIds,
          fileType \in FileTypes :
          ParseFetchFailed(documentType, documentId, fileType)
    \/ ParseReturn
    \/ BadRequest("A")
    \/ RunStep("A", RequestThresholds, EmbedPaths, BOOLEAN)
    \/ Return("A")

Spec == Init /\ [][Next]_vars

\* a job with its extracted description and a batch of uploaded resumes, each still
\* unparsed or with an extracted text, nothing embedded or matched yet
InitBatch ==
    /\ jobs = [j \in JobIds |-> [row |-> "live", description_text |-> TextGoDev,
                                   embedding |-> NoEmb, status |-> "completed"]]
    /\ resumes \in [ResumeIds -> {[row |-> "live", job_id |-> 1, resume_text |-> t,
                                    embedding |-> NoEmb,
                                    status |-> IF t = Null THEN "processing" ELSE "completed"] :
                                       t \in {Null, <<>>, TextGoDev, TextChef}}]
    /\ matches = {}
    /\ runs = [r \in RunIds |-> IdleRun]
    /\ parse = IdleParse
    /\ lastUpsert = [p \in JobIds \X ResumeIds |-> NoScore]
    /\ computed = {}
    /\ call = NoCall

\* SpecBatch: match runs over the batch with the default threshold, one after the
\* other, every store operation able to fail
NextBatch ==
    \/ BadRequest("A")
    \/ RunStep("A", {NoThreshold}, EmbedPaths, BOOLEAN)
    \/ Return("A")

SpecBatch == InitBatch /\ [][NextBatch]_vars

\* SpecConc: two match runs over the batch with the default threshold, their store
\* operations interleaved, the store never failing
NextConc == \E r \in RunIds : RunStep(r, {NoThreshold}, EmbedPaths, {TRUE})

SpecConc == InitBatch /\ [][NextConc]_vars

\* SpecFault: as SpecBatch, and generateEmbedding may raise (both of its paths fail)
NextFault ==
    \/ RunStep("A", {NoThreshold}, EmbedPaths \cup {"raise"}, BOOLEAN)
    \/ Return("A")

SpecFault == InitBatch /\ [][NextFault]_vars

\* threshold of a request body: absent, 1.0, or a number above the range [0, 1]
ThresholdInputs == {NoThreshold, Scale, Scale + Scale \div 2}

\* SpecThreshold: match runs over the batch with any of these thresholds, one after
\* the other, the store never failing
NextThreshold ==
    \/ RunStep("A", ThresholdInputs, EmbedPaths, {TRUE})
    \/ Return("A")

SpecThreshold == InitBatch /\ [][NextThreshold]_vars

\* SpecRerun: match runs over the batch with the default threshold, one after the
\* other; the updates of the embedding columns may fail, nothing else does
NextRerun ==
    \/ \E jobId \in JobIds : LoadJob("A", jobId, NoThreshold, TRUE)
    \/ \E path \in EmbedPaths, ok \in BOOLEAN : EmbedJob("A", path, ok)
    \/ LoadResumes("A", TRUE)
    \/ SkipResume("A")
    \/ \E path \in EmbedPaths, ok \in BOOLEAN : EmbedResume("A", path, ok)
    \/ ReadCached("A")
    \/ ScoreResume("A", TRUE)
    \/ Unscored("A")
    \/ Respond("A")
    \/ Return("A")

SpecRerun == InitBatch /\ [][NextRerun]_vars

\* two jobs with their extracted descriptions, each resume uploaded to one of them,
\* still unparsed or with an extracted text, nothing embedded or matched yet
InitJobs ==
    /\ jobs = [j \in JobIds |-> [row |-> "live",
                                   description_text |-> IF j = 1 THEN TextGoDev ELSE TextChef,
                                   embedding |-> NoEmb, status |-> "completed"]]
    /\ resumes \in [ResumeIds -> {[row |-> "live", job_id |-> j, resume_text |-> t,
                                    embedding |-> NoEmb,
                                    status |-> IF t = Null THEN "processing" ELSE "completed"] :
                                       j \in JobIds, t \in {Null, TextGoDev, TextChef}}]
    /\ matches = {}
    /\ runs = [r \in RunIds |-> IdleRun]
    /\ parse = IdleParse
    /\ lastUpsert = [p \in JobIds \X ResumeIds |-> NoScore]
    /\ computed = {}
    /\ call = NoCall

\* SpecJobs: match runs for either job with the default threshold, one after the
\* other, and between them extractions that leave a resume with an empty text; the
\* updates of the embedding columns may fail, nothing else does
NextJobs ==
    \/ \E jobId \in JobIds : LoadJob("A", jobId, NoThreshold, TRUE)
    \/ \E path \in EmbedPaths, ok \in BOOLEAN : EmbedJob("A", path, ok)
    \/ LoadResumes("A", TRUE)
    \/ SkipResume("A")
    \/ \E path \in EmbedPaths, ok \in BOOLEAN : EmbedResume("A", path, ok)
    \/ ReadCached("A")
    \/ ScoreResume("A", TRUE)
    \/ Unscored("A")
    \/ Respond("A")
    \/ Return("A")
    \/ \E documentId \in ResumeIds : ParseDocument("resume", documentId, "text/plain", <<10>>, TRUE)
    \/ ParseReturn

SpecJobs == InitJobs /\ [][NextJobs]_vars

\* the sequences over A of length at most n
SeqsUpTo(A, n) == UNION {[1..k -> A] : k \in 0..n}

\* characters of the texts passed to cleanText: 'a', space, newline, tab, no-break
\* space, e-acute, BEL
CleanChars == {97, 32, 10, 9, 160, 233, 7}
\* characters of the texts passed to generateFallbackEmbedding: 'G', 'o', space
FallbackChars == {71, 111, 32}
\* components of the vectors passed to calculateCosineSimilarity
Components == {0 - 1, 0, 2}

PureCalls ==
    {[fn |-> "cleanText", args |-> <<text>>, out |-> <<>>, done |-> FALSE] :
        text \in SeqsUpTo(CleanChars, MaxTextLen)}
    \cup {[fn |-> "generateFallbackEmbedding", args |-> <<text>>, out |-> <<>>, done |-> FALSE] :
             text \in SeqsUpTo(FallbackChars, MaxTextLen)}
    \cup {[fn |-> "calculateCosineSimilarity", args |-> <<vec1, vec2>>, out |-> <<>>,
            done |-> FALSE] :
             vec1 \in SeqsUpTo(Components, MaxVecLen), vec2 \in SeqsUpTo(Components, MaxVecLen)}

\* the pure functions, each applied to the arguments of the call
ApplyCleanText ==
    /\ call.fn = "cleanText" /\ ~call.done
    /\ call' = [call EXCEPT !.out = <<cleanText(call.args[1])>>, !.done = TRUE]
    /\ UNCHANGED <<jobs, resumes, matches, runs, parse, lastUpsert, computed>>

ApplyFallbackEmbedding ==
    /\ call.fn = "generateFallbackEmbedding" /\ ~call.done
    /\ call' = [call EXCEPT !.out = <<generateFallbackEmbedding(call.args[1])>>, !.done = TRUE]
    /\ UNCHANGED <<jobs, resumes, matches, runs, parse, lastUpsert, computed>>

ApplyCosineSimilarity ==
    /\ call.fn = "calculateCosineSimilarity" /\ ~call.done
    /\ call' = [call EXCEPT !.out = <<calculateCosineSimilarity(call.args[1], call.args[2])>>,
                             !.done = TRUE]
    /\ UNCHANGED <<jobs, resumes, matches, runs, parse, lastUpsert, computed>>

\* SpecPure: one call of cleanText, generateFallbackEmbedding or
\* calculateCosineSimilarity on arguments drawn from the bounded sets
InitPure ==
    /\ jobs = [j \in JobIds |-> FreeJob]
    /\ resumes = [x \in ResumeIds |-> FreeResume]
    /\ matches = {}
    /\ runs = [r \in RunIds |-> IdleRun]
    /\ parse = IdleParse
    /\ lastUpsert = [p \in JobIds \X ResumeIds |-> NoScore]
    /\ computed = {}
    /\ call \in PureCalls

NextPure ==
    \/ ApplyCleanText
    \/ ApplyFallbackEmbedding
    \/ ApplyCosineSimilarity

SpecPure == InitPure /\ [][NextPure]_vars

\* ------------------------------------------------------------------ claims

RowsOf(j, x) == {m \in matches : m.job_id = j /\ m.resume_id = x}
Done(r) == runs[r].pc = "done"
\* the resume x as run r loaded it
Loaded(r, x) == CHOOSE s \in {runs[r].resumes[k] : k \in 1..Len(runs[r].resumes)} : s.id = x
LoadedIds(r) == {runs[r].resumes[k].id : k \in 1..Len(runs[r].resumes)}

\* C1: the matches table holds at most one row per (job_id, resume_id), and that
\* row carries the score of the last successful upsert for the pair
C1_OneRowPerPair ==
    \A j \in JobIds, x \in ResumeIds :
        /\ Cardinality(RowsOf(j, x)) <= 1
        /\ \A m \in RowsOf(j, x) : m.similarity_score = lastUpsert[<<j, x>>]

\* a run has overwritten the row of a pair with another score
C1_Witness ==
    \E r \in RunIds : \E x \in runs[r].replaced :
        \E m \in RowsOf(runs[r].jobId, x) : m.similarity_score = runs[r].scored[x]

\* C2, as claimed: a run writes no row for a resume it loaded without text
C2_NoRowWithoutText ==
    \A r \in RunIds : \A x \in ResumeIds :
        runs[r].out[x] = "written" => Truthy(Loaded(r, x).resume_text)

\* C3, as claimed: generateEmbedding runs at most once per document
C3_AtMostOnce ==
    [][\A r \in RunIds : \A d \in runs'[r].gen \ runs[r].gen : d \notin computed]_vars

\* C3, amended: a run computes the embedding of no document whose record it
\* loaded with an embedding
C3_ComputeOnlyIfAbsent ==
    \A r \in RunIds : runs[r].gen \cap runs[r].cached = {}

\* a run has scored a resume with embeddings it found cached, computing none
C3_Witness ==
    \E r \in RunIds :
        /\ Done(r) /\ runs[r].resp.success
        /\ runs[r].gen = {}
        /\ JobDoc(runs[r].jobId) \in runs[r].cached
        /\ \E x \in ResumeIds : ResumeDoc(x) \in runs[r].cached /\ runs[r].out[x] = "written"

\* C4, as claimed: the embeddings a run scores with are embeddings of the texts it loaded
C4_EmbeddingOfLoadedText ==
    \A r \in RunIds :
        (runs[r].pc = "score" /\ runs[r].jobEmbedding # NoEmb /\ runs[r].resumeEmbedding # NoEmb)
        => /\ runs[r].jobEmbedding.text = runs[r].job.description_text
           /\ runs[r].resumeEmbedding.text = Current(r).resume_text

\* C5, as claimed: two overlapping runs of the same job end with one row per scored
\* pair, having written the same score for it
C5_WritersConverge ==
    (\A r \in RunIds : Done(r) /\ runs[r].resp.success) =>
        \A x \in ResumeIds :
            (\A r \in RunIds : runs[r].jobId = 1 /\ runs[r].out[x] = "written") =>
                /\ Cardinality(RowsOf(1, x)) = 1
                /\ \A r \in RunIds : \A m \in RowsOf(1, x) :
                       m.similarity_score = runs[r].scored[x]

\* C6: a run for a job id with no live row answers success:false, 'Job not found',
\* and the step changes no table
C6_JobNotFound ==
    [][\A r \in RunIds :
          (/\ runs[r].pc = "idle" /\ runs'[r].pc # "idle"
           /\ runs'[r].jobId \in JobIds
           /\ jobs[runs'[r].jobId].row # "live")
          => /\ runs'[r].pc = "done"
             /\ runs'[r].resp = Failure("Job not found")
             /\ store' = store]_vars

\* a run has ended on a job id whose row was never inserted or is deleted
C6_Witness ==
    \E r \in RunIds :
        /\ Done(r) /\ runs[r].lookup = "missing"
        /\ jobs[runs[r].jobId].row # "live"
        /\ ~runs[r].resp.success

\* C7, as claimed: once the job is found, no failed store operation makes the run
\* answer success:false
C7_OnlyLookupFatal ==
    \A r \in RunIds : (Done(r) /\ runs[r].lookup = "found") => runs[r].resp.success

\* C7, amended: a run that read its request answers success:false exactly when the
\* job lookup or the query of the job's resumes failed; a failed embedding update
\* or upsert leaves it success:true
C7_LookupAndLoadFatal ==
    \A r \in RunIds :
        (Done(r) /\ runs[r].lookup # "none") =>
            (~runs[r].resp.success <=>
                (runs[r].lookup = "missing" \/ "loadResumes" \in runs[r].failed))

\* a run has answered success:true after a failed embedding update and a failed upsert
C7_Witness ==
    \E r \in RunIds :
        /\ Done(r) /\ runs[r].resp.success
        /\ "jobEmbWrite" \in runs[r].failed
        /\ "upsert" \in runs[r].failed

\* C8: a run in which the embedding update or the upsert of a resume failed has
\* processed every resume it loaded and answers success:true
C8_WriteFailureContinues ==
    \A r \in RunIds :
        (Done(r) /\ runs[r].failed \cap {"resumeEmbWrite", "upsert"} # {}) =>
            /\ runs[r].resp.success
            /\ runs[r].resp.total_resumes = Len(runs[r].resumes)
            /\ \A x \in LoadedIds(r) : runs[r].out[x] # "none"

\* the upsert of the first resume failed and the second resume has its row
C8_Witness ==
    \E r \in RunIds :
        /\ Done(r)
        /\ runs[r].out[1] = "upsertFailed"
        /\ runs[r].out[2] = "written"
        /\ RowsOf(runs[r].jobId, 2) # {}

\* C9, as claimed: a run in which generateEmbedding raised for one resume still
\* answers success:true, having processed the other resumes it loaded
C9_EmbeddingFailureIsolated ==
    \A r \in RunIds :
        (Done(r) /\ \E x \in LoadedIds(r) : ResumeDoc(x) \in runs[r].raised) =>
            /\ runs[r].resp.success
            /\ \A x \in LoadedIds(r) : ResumeDoc(x) \notin runs[r].raised => runs[r].out[x] # "none"

\* C10, as claimed: every resume a success response counts as matched has its row
\* written by the run
C10_CountsOnlyWritten ==
    \A r \in RunIds :
        (Done(r) /\ runs[r].resp.success) =>
            /\ \A k \in 1..Len(runs[r].resp.matches) :
                   runs[r].out[runs[r].resp.matches[k].resume_id] = "written"
            /\ runs[r].resp.matched_resumes =
                   Cardinality({x \in LoadedIds(r) :
                       runs[r].out[x] = "written" /\ IsMatch(runs[r].scored[x], runs[r].threshold)})

\* C11: every finished invocation of either handler holds a structured response: a
\* success, or status 500 with success:false and an error message
C11_NoEscape ==
    /\ \A r \in RunIds :
          Done(r) =>
              \/ runs[r].resp.status = 200 /\ runs[r].resp.success /\ runs[r].resp.error = ""
              \/ runs[r].resp.status = 500 /\ ~runs[r].resp.success /\ runs[r].resp.error # ""
    /\ parse.pc = "done" =>
          \/ parse.success /\ parse.error = ""
          \/ ~parse.success /\ parse.error # ""

\* a match run has answered a failed resumes query
C11_Witness ==
    \E r \in RunIds :
        /\ Done(r) /\ "loadResumes" \in runs[r].failed
        /\ runs[r].resp.status = 500 /\ runs[r].resp.error = "store error"

\* the resumes listed in a sequence of match entries
ListedIds(list) == {list[k].resume_id : k \in 1..Len(list)}

\* C12: a resume a run loaded without text and with a status other than 'completed'
\* is passed over: the run computes no embedding for it, reaches neither the
\* similarity nor the upsert for it, does not list or count it, and does not fail
C12_SkippedUntouched ==
    \A r \in RunIds : \A x \in LoadedIds(r) :
        (~Truthy(Loaded(r, x).resume_text) /\ Loaded(r, x).status # "completed") =>
            /\ ResumeDoc(x) \notin runs[r].gen
            /\ runs[r].out[x] \in {"none", "skipped"}
            /\ runs[r].pc = "score" => Current(r).id # x
            /\ resumes[x].embedding = Loaded(r, x).embedding
            /\ x \notin ListedIds(runs[r].matches)
            /\ Done(r) =>
                  /\ runs[r].resp.success
                  /\ x \notin ListedIds(runs[r].resp.matches)
                  /\ runs[r].resp.matched_resumes =
                         Cardinality(ListedIds(runs[r].resp.matches) \ {x})

\* a run has passed over the first resume, unparsed, and matched the second
C12_Witness ==
    \E r \in RunIds :
        /\ Done(r) /\ runs[r].resp.success
        /\ runs[r].out[1] = "skipped"
        /\ Loaded(r, 1).resume_text = Null /\ Loaded(r, 1).status = "processing"
        /\ RowsOf(runs[r].jobId, 1) = {}
        /\ runs[r].out[2] = "written"
        /\ runs[r].resp.matched_resumes = 1

\* C13: a success response lists exactly the resumes the run computed a similarity
\* for with similarity >= threshold, the threshold being the request's as given, or
\* 0.6 when it gave none; matched_resumes is the length of the list and the
\* response's threshold is the one used
C13_ListedIffAtLeastThreshold ==
    \A r \in RunIds :
        (Done(r) /\ runs[r].resp.success) =>
            LET used == IF runs[r].asked = NoThreshold THEN DefaultThreshold ELSE runs[r].asked
            IN /\ ListedIds(runs[r].resp.matches) =
                      {x \in LoadedIds(r) : /\ runs[r].scored[x] # NoScore
                                            /\ runs[r].scored[x] >= used}
               /\ Cardinality(ListedIds(runs[r].resp.matches)) = Len(runs[r].resp.matches)
               /\ runs[r].resp.matched_resumes = Len(runs[r].resp.matches)
               /\ runs[r].resp.threshold = used
               /\ \A k \in 1..Len(runs[r].resp.matches) :
                      runs[r].resp.matches[k].similarity_score =
                          runs[r].scored[runs[r].resp.matches[k].resume_id]

\* a run with threshold 1.0 has listed a resume of similarity exactly 1.0 and left
\* out one it scored lower
C13_Witness ==
    \E r \in RunIds :
        /\ Done(r) /\ runs[r].resp.success
        /\ runs[r].asked = Scale
        /\ \E x, y \in LoadedIds(r) :
              /\ runs[r].scored[x] = Scale /\ x \in ListedIds(runs[r].resp.matches)
              /\ runs[r].scored[y] < Scale /\ y \notin ListedIds(runs[r].resp.matches)

\* C14, as claimed: every similarity_score in the matches table or in a run's
\* matches list lies in [0, 1]
C14_ScoreInUnitRange ==
    /\ \A m \in matches : m.similarity_score >= 0 /\ m.similarity_score <= Scale
    /\ \A r \in RunIds : \A k \in 1..Len(runs[r].matches) :
          /\ runs[r].matches[k].similarity_score >= 0
          /\ runs[r].matches[k].similarity_score <= Scale

RECURSIVE Lengths(_)
\* the number of components of the vector of each embedding of E, computed once
Lengths(E) ==
    IF E = {} THEN <<>>
    ELSE LET e == CHOOSE f \in E : TRUE
         IN (e :> Len(Vec(e))) @@ Lengths(E \ {e})
Dimension == Lengths(Embeddings)

\* the embeddings the store holds and the ones the runs hold
HeldEmbeddings ==
    ({jobs[j].embedding : j \in JobIds} \cup {resumes[x].embedding : x \in ResumeIds}
       \cup {runs[r].jobEmbedding : r \in RunIds} \cup {runs[r].resumeEmbedding : r \in RunIds})
    \ {NoEmb}

\* C15: every embedding on a job or resume row, and every vector a run holds for
\* the similarity, has 384 components, from the model or from the fallback
C15_Dimension384 == \A e \in HeldEmbeddings : Dimension[e] = EmbeddingDim

\* a run is about to compare a stored vector of the model with one of the fallback
C15_Witness ==
    \E r \in RunIds :
        /\ runs[r].pc = "score"
        /\ runs[r].jobEmbedding.path = "primary"
        /\ jobs[runs[r].jobId].embedding = runs[r].jobEmbedding
        /\ runs[r].resumeEmbedding.path = "fallback"
        /\ resumes[Current(r).id].embedding = runs[r].resumeEmbedding

\* the vector of an embedding obtained after the model raised is the fallback's
\* vector of the same text
FallbackExact ==
    \A e \in Embeddings : e.path = "fallback" => Vec(e) = generateFallbackEmbedding(e.text)

\* C16: when the model may raise in any call of generateEmbedding, no call raises to
\* the run: the run holds an embedding of the text it passed, and the one obtained
\* after the model raised is the fallback embedding of that text
C16_FallbackOnPrimaryFailure ==
    /\ FallbackExact
    /\ \A r \in RunIds :
          /\ runs[r].raised = {}
          /\ runs[r].resp.error # "embedding failed"
          /\ JobDoc(runs[r].jobId) \in runs[r].gen =>
                /\ runs[r].jobEmbedding \in Embeddings
                /\ runs[r].jobEmbedding.text = runs[r].job.description_text
          /\ (runs[r].pc = "score" /\ ResumeDoc(Current(r).id) \in runs[r].gen) =>
                /\ runs[r].resumeEmbedding \in Embeddings
                /\ runs[r].resumeEmbedding.text = Current(r).resume_text

\* the model raised for the job and for a resume, and the run goes on to compare
\* the two fallback embeddings
C16_Witness ==
    \E r \in RunIds :
        /\ runs[r].pc = "score"
        /\ {JobDoc(runs[r].jobId), ResumeDoc(Current(r).id)} \subseteq runs[r].gen
        /\ runs[r].jobEmbedding = [path |-> "fallback", text |-> runs[r].job.description_text]
        /\ runs[r].resumeEmbedding = [path |-> "fallback", text |-> Current(r).resume_text]

\* C17: an extraction invocation for a file type with no extraction rule answers
\* success:false with an error and changes no row of any table
C17_UnsupportedLeavesRecord ==
    [][(parse.pc = "idle" /\ parse'.pc = "done" /\ parse'.fileType = "image/png") =>
          /\ ~parse'.success
          /\ parse'.error # ""
          /\ store' = store]_vars

\* an invocation with image/png for a resume that has its text has answered an
\* error: the record still has its text
C17_Witness ==
    /\ parse.pc = "done" /\ parse.fileType = "image/png" /\ parse.documentType = "resume"
    /\ ~parse.success /\ parse.error = "Unsupported file type"
    /\ parse.documentId \in ResumeIds
    /\ resumes[parse.documentId].row = "live"
    /\ resumes[parse.documentId].resume_text = TextGoDev
    /\ resumes[parse.documentId].status = "completed"

\* a normalized text: printable ASCII only, single spaces, none at either end
IsNormalized(s) ==
    /\ \A k \in 1..Len(s) : s[k] >= 32 /\ s[k] <= 126
    /\ \A k \in 1..(Len(s) - 1) : ~(s[k] = 32 /\ s[k + 1] = 32)
    /\ s # <<>> => s[1] # 32 /\ s[Len(s)] # 32

\* C18: an extraction invocation that answers success returns a normalized text and
\* its length, and has written that text and status 'completed' onto the row of the
\* table of documentType with id documentId, and onto nothing else; one that
\* answers success:false has written nothing
C18_WriteBack ==
    [][(parse.pc = "idle" /\ parse'.pc = "done") =>
          IF parse'.success
          THEN /\ IsNormalized(parse'.text)
               /\ parse'.length = Len(parse'.text)
               /\ matches' = matches
               /\ IF parse'.documentType = "job"
                  THEN /\ resumes' = resumes
                       /\ \A j \in JobIds :
                              jobs'[j] = IF j = parse'.documentId /\ jobs[j].row = "live"
                                         THEN [jobs[j] EXCEPT !.description_text = parse'.text,
                                                              !.status = "completed"]
                                         ELSE jobs[j]
                  ELSE /\ jobs' = jobs
                       /\ \A x \in ResumeIds :
                              resumes'[x] = IF x = parse'.documentId /\ resumes[x].row = "live"
                                            THEN [resumes[x] EXCEPT !.resume_text = parse'.text,
                                                                    !.status = "completed"]
                                            ELSE resumes[x]
          ELSE store' = store]_vars

\* an invocation for a resume has answered the text 'Chef', length 4, extracted from
\* ' Chef', and the resume's row holds it with status 'completed'
C18_Witness ==
    /\ parse.pc = "done" /\ parse.success /\ parse.documentType = "resume"
    /\ parse.text = TextChef /\ parse.length = 4
    /\ parse.documentId \in ResumeIds
    /\ resumes[parse.documentId].row = "live"
    /\ resumes[parse.documentId].resume_text = TextChef
    /\ resumes[parse.documentId].status = "completed"

\* the row an extraction invocation names
ParseTarget ==
    IF parse.documentType = "job"
    THEN (IF parse.documentId \in JobIds THEN jobs[parse.documentId] ELSE FreeJob)
    ELSE (IF parse.documentId \in ResumeIds THEN resumes[parse.documentId] ELSE FreeResume)

\* C19, as claimed: once an extraction invocation for a record has answered, with
\* success or with an error, the record's status is 'completed' or 'failed'
C19_ExtractionSettlesStatus ==
    (parse.pc = "done" /\ parse.documentType \in {"job", "resume"}
                       /\ ParseTarget.row = "live") =>
        ParseTarget.status \in {"completed", "failed"}

\* the resumes a run loaded 'completed', without text and without an embedding, and
\* has been through
EmptyCompleted(r) ==
    {x \in LoadedIds(r) : /\ Loaded(r, x).status = "completed"
                          /\ ~Truthy(Loaded(r, x).resume_text)
                          /\ Loaded(r, x).embedding = NoEmb
                          /\ runs[r].out[x] # "none"}

\* C20, as claimed: for such a resume the run computes an embedding and upserts a row
C20_EmptyTextScored ==
    \A r \in RunIds : \A x \in EmptyCompleted(r) :
        /\ runs[r].out[x] \in {"written", "upsertFailed"}
        /\ ResumeDoc(x) \in runs[r].gen

\* C20, amended: such a resume is not skipped, and the run computes no embedding for
\* it (the empty text is falsy) and, holding no embedding of it, neither computes a
\* similarity nor upserts a row; it appears in total_resumes alone
C20_EmptyTextUnscored ==
    \A r \in RunIds :
        /\ \A x \in EmptyCompleted(r) :
              /\ runs[r].out[x] = "unscored"
              /\ ResumeDoc(x) \notin runs[r].gen
              /\ runs[r].scored[x] = NoScore
              /\ resumes[x].embedding = NoEmb
              /\ x \notin ListedIds(runs[r].matches)
        /\ \A x \in LoadedIds(r) :
              (/\ Loaded(r, x).status = "completed" /\ ~Truthy(Loaded(r, x).resume_text)
               /\ Loaded(r, x).embedding = NoEmb) =>
                  /\ ResumeDoc(x) \notin runs[r].gen
                  /\ runs[r].out[x] \in {"none", "unscored"}

\* a run has gone through a 'completed' resume with the empty text, leaving no row
\* for it, and counts it in total_resumes
C20_Witness ==
    \E r \in RunIds :
        /\ Done(r) /\ runs[r].resp.success
        /\ 1 \in EmptyCompleted(r) /\ Loaded(r, 1).resume_text = <<>>
        /\ runs[r].out[1] = "unscored"
        /\ RowsOf(runs[r].jobId, 1) = {}
        /\ runs[r].out[2] = "written"
        /\ runs[r].resp.total_resumes = 2

\* C21: every row of matches references a job row and a resume row that exist, so
\* the delete of a job or of a resume has taken the rows that referenced it
C21_NoOrphanMatch ==
    \A m \in matches :
        /\ jobs[m.job_id].row = "live"
        /\ resumes[m.resume_id].row = "live"

\* a resume that had its row in matches is deleted, its job is not, and the row is gone
C21_Witness ==
    \E j \in JobIds, x \in ResumeIds :
        /\ lastUpsert[<<j, x>>] = Cascaded
        /\ jobs[j].row = "live" /\ jobs[j].embedding # NoEmb
        /\ resumes[x].row = "gone"
        /\ RowsOf(j, x) = {}

\* C22, as claimed: a run repeated for the same job with the same threshold and the
\* same texts leaves every row it finds with the score the row had
C22_RerunSameRecords ==
    \A r \in RunIds : runs[r].replaced = {}

\* the place of resume x in the order run r loaded the resumes in
LoadPosition(r, x) == CHOOSE k \in 1..Len(runs[r].resumes) : runs[r].resumes[k].id = x

\* C23: the matches list of a success response holds the entries the run pushed,
\* by similarity_score non-increasing, entries of equal score in load order
C23_SortedStable ==
    \A r \in RunIds :
        (Done(r) /\ runs[r].resp.success) =>
            LET list == runs[r].resp.matches
            IN /\ Len(list) = Len(runs[r].matches)
               /\ {list[k] : k \in 1..Len(list)} =
                      {runs[r].matches[k] : k \in 1..Len(runs[r].matches)}
               /\ \A k, l \in 1..Len(list) :
                      k < l =>
                          /\ list[k].similarity_score >= list[l].similarity_score
                          /\ list[k].similarity_score = list[l].similarity_score =>
                                 LoadPosition(r, list[k].resume_id) <
                                     LoadPosition(r, list[l].resume_id)

\* a response lists the resume loaded second before the one loaded first, its
\* score being higher
C23_Witness ==
    \E r \in RunIds :
        /\ Done(r) /\ runs[r].resp.success
        /\ Len(runs[r].resp.matches) = 2
        /\ runs[r].resp.matches[1].resume_id = 2
        /\ runs[r].resp.matches[2].resume_id = 1
        /\ runs[r].resp.matches[1].similarity_score > runs[r].resp.matches[2].similarity_score

\* the ASCII lower case of a text
LowerCodes(s) == [k \in 1..Len(s) |-> IF s[k] >= 65 /\ s[k] <= 90 THEN s[k] + 32 ELSE s[k]]

\* the vector the slots rule gives for these words: the code of character j of
\* word i added to slot (i + j) mod 384, the whole divided by its magnitude
SlotsRule(words) ==
    LET raw == [k \in 1..EmbeddingDim |->
                  SumSeq([n \in 1..Len(words) |->
                      SumSeq([m \in 1..Len(words[n]) |->
                          IF ((n - 1) + (m - 1)) % EmbeddingDim = k - 1
                          THEN words[n][m] ELSE 0])])]
        mag == Isqrt(SumSeq([k \in 1..EmbeddingDim |-> raw[k] * raw[k]]))
    IN [k \in 1..EmbeddingDim |-> IF mag > 0 THEN (raw[k] * Scale) \div mag ELSE 0]

FallbackCalled == call.fn = "generateFallbackEmbedding" /\ call.done

\* C24, as claimed: the fallback embedding is the slots rule on the words of the
\* text as it is given
C24_CodesAsInInput ==
    FallbackCalled => call.out[1] = SlotsRule(SplitWhitespace(call.args[1]))

\* C24, amended: the fallback embedding is the slots rule on the words of the
\* lowercased text
C24_CodesOfLowercased ==
    FallbackCalled => call.out[1] = SlotsRule(SplitWhitespace(LowerCodes(call.args[1])))

\* the fallback embedding of 'Go' is computed: slot 0 holds the share of 'g' (103),
\* not of 'G' (71)
C24_Witness ==
    /\ FallbackCalled
    /\ call.args[1] = <<71, 111>>
    /\ call.out[1][1] = (103 * Scale) \div Isqrt(103 * 103 + 111 * 111)
    /\ call.out[1][1] # (71 * Scale) \div Isqrt(71 * 71 + 111 * 111)

CosineCalled == call.fn = "calculateCosineSimilarity" /\ call.done

\* C25: calculateCosineSimilarity of two vectors of unequal length is 0
C25_UnequalLengthZero ==
    (CosineCalled /\ Len(call.args[1]) # Len(call.args[2])) => call.out = <<0>>

\* the call on [2] and [2, 0], whose common component alone would give 1, has returned 0
C25_Witness ==
    /\ CosineCalled
    /\ call.args = << <<2>>, <<2, 0>> >>
    /\ call.out = <<0>>

\* every component of v is 0
IsZeroVector(v) == \A k \in 1..Len(v) : v[k] = 0

\* C26: calculateCosineSimilarity is 0 when either vector is a zero vector, the
\* other being any vector of the same length
C26_ZeroVectorZero ==
    (/\ CosineCalled
     /\ Len(call.args[1]) = Len(call.args[2])
     /\ IsZeroVector(call.args[1]) \/ IsZeroVector(call.args[2])) => call.out = <<0>>

\* the call on [0, 0] and [2, -1] has returned 0, and the call on a vector that is
\* not zero and itself would return 1
C26_Witness ==
    /\ CosineCalled
    /\ call.args = << <<0, 0>>, <<2, 0 - 1>> >>
    /\ call.out = <<0>>
    /\ calculateCosineSimilarity(<<2, 0 - 1>>, <<2, 0 - 1>>) = Scale

CleanCalled == call.fn = "cleanText" /\ call.done

\* C27: the text cleanText returns holds printable ASCII only, no two whitespace
\* characters in a row, no newline, no whitespace at either end, and cleanText of
\* it is the text itself
C27_CleanNormalIdempotent ==
    CleanCalled =>
        /\ IsNormalized(call.out[1])
        /\ \A k \in 1..Len(call.out[1]) : ~(IsSpace(call.out[1][k]) /\ call.out[1][k] # 32)
        /\ cleanText(call.out[1]) = call.out[1]

\* cleanText of "a<tab><newline>" has returned "a"; of "a<nbsp>a" it returns "a a",
\* of "<BEL><e-acute><newline>" the empty text
C27_Witness ==
    /\ CleanCalled
    /\ call.args[1] = <<97, 9, 10>>
    /\ call.out[1] = <<97>>
    /\ cleanText(<<97, 160, 97>>) = <<97, 32, 97>>
    /\ cleanText(<<7, 233, 10>>) = <<>>

\* C28: every matches row has is_match true exactly when its similarity_score is at
\* least the threshold in its match_details, whatever thresholds the runs were given
C28_RowSelfConsistent ==
    \A m \in matches : m.is_match = (m.similarity_score >= m.threshold)

\* a run with threshold 1.5 has rewritten one row of an earlier run with the
\* default threshold: same score 1.0, one row a match at 0.6, the other none at 1.5
C28_Witness ==
    \E m \in matches, n \in matches :
        /\ m.resume_id # n.resume_id
        /\ m.similarity_score = Scale /\ n.similarity_score = Scale
        /\ m.threshold = DefaultThreshold /\ m.is_match
        /\ n.threshold = Scale + Scale \div 2 /\ ~n.is_match

\* C29: every matches row relates a job to a resume of that job
C29_RowOfOwnResume ==
    \A m \in matches : resumes[m.resume_id].row = "live" /\ resumes[m.resume_id].job_id = m.job_id

\* both jobs have a row, each with a resume of its own, and a run that loaded one
\* resume while the other job's resume was live has written one of them
C29_Witness ==
    /\ \E m \in matches, n \in matches :
           /\ m.job_id = 1 /\ resumes[m.resume_id].job_id = 1
           /\ n.job_id = 2 /\ resumes[n.resume_id].job_id = 2
    /\ runs["A"].pc = "done" /\ runs["A"].resp.success
    /\ Len(runs["A"].resumes) = 1
    /\ runs["A"].out[runs["A"].resumes[1].id] = "written"

\* the job a step of run r belongs to
StepJob(r) == IF runs[r].pc = "idle" THEN runs'[r].jobId ELSE runs[r].jobId

\* what a step of a match run for job J leaves as it was
FrameOfRun(r, J) ==
    /\ \A j \in JobIds :
           /\ [jobs'[j] EXCEPT !.embedding = jobs[j].embedding] = jobs[j]
           /\ j # J => jobs'[j] = jobs[j]
    /\ \A x \in ResumeIds :
           /\ [resumes'[x] EXCEPT !.embedding = resumes[x].embedding] = resumes[x]
           /\ resumes[x].job_id # J => resumes'[x] = resumes[x]
    /\ \A m \in (matches \ matches') \cup (matches' \ matches) :
           /\ m.job_id = J
           /\ runs[r].pc = "score"
           /\ m.resume_id = runs[r].resumes[runs[r].i].id
           /\ runs'[r].out[m.resume_id] = "written"

\* C30: a step of a match run for job J changes nothing but the embedding of J, the
\* embeddings of resumes of J and matches rows of J: every text and status, every
\* record of another job, and every row of a resume the run skipped or did not
\* score stay as they were
C30_RunFrame ==
    [][\A r \in RunIds : runs'[r] # runs[r] => FrameOfRun(r, StepJob(r))]_vars

\* a run for job 1 has stored the embedding of job 1 and could not score resume 1,
\* whose row of an earlier run is still there, next to a row of job 2
C30_Witness ==
    /\ runs["A"].pc = "done" /\ runs["A"].jobId = 1
    /\ JobDoc(1) \in runs["A"].gen /\ jobs[1].embedding # NoEmb
    /\ runs["A"].out[1] = "unscored"
    /\ RowsOf(1, 1) # {}
    /\ RowsOf(2, 2) # {}
    /\ resumes[2].embedding # NoEmb

====
